---- MODULE Spec2Model ----
(***************************************************************************)
(* The crawl orchestration engine of historium: utils/manager.py           *)
(* (CrawlerManager), utils/rate_limiter.py (RateLimiter) and the           *)
(* orchestrating coroutine run_crawlers of main.py.                        *)
(*                                                                         *)
(* asyncio schedules cooperatively: a coroutine runs from one suspension   *)
(* point (an await that really waits) to the next without interleaving.    *)
(* Every action below is one such run.  Cancellation follows asyncio's     *)
(* documented contract: Task.cancel() makes the task raise CancelledError  *)
(* at the await it is (or next becomes) suspended in; CancelledError is a  *)
(* BaseException, so "except Exception" does not catch it.                 *)
(***************************************************************************)
EXTENDS Integers, Sequences, FiniteSets, TLC

(* ---------------- program constants ---------------- *)
NumMuseums == 2      \* crawler_map holds two crawlers (louvre, met)
MaxRetries == 3      \* CrawlerManager(max_retries=3), never overridden by main.py
NoCap == -1          \* max_artworks_per_museum = None
CallsPerSecond == 80 \* MetCrawler.CALLS_PER_SECOND, LouvreCrawler.CALLS_PER_SECOND

(* ---------------- bounds of the model ---------------- *)
\* runs of one source
MaxLimit == 2        \* max_concurrent_requests ranges over 1..MaxLimit
MaxIds == 2          \* get_artwork_ids returns 0..MaxIds identifiers
MaxCap == 1          \* max_artworks_per_museum ranges over None, 0..MaxCap
\* runs of one source under signals
MaxSignals == 2      \* SIGINT/SIGTERM deliveries
SignalledIds == 1    \* get_artwork_ids returns 0..SignalledIds identifiers
\* runs of two sources
SharedLimit == 1     \* max_concurrent_requests ranges over 1..SharedLimit
SharedIds == 1       \* get_artwork_ids returns 0..SharedIds identifiers
LaunchLimit == 2     \* max_concurrent_requests ranges over 0..LaunchLimit (SpecLaunch)
\* runs of one source that hand out several identifiers under signals
HandOutIds == 2      \* get_artwork_ids returns 0..HandOutIds identifiers (SpecHandOut)
\* the rate limiter on its own
NumCallers == 3      \* tasks calling RateLimiter.acquire concurrently (SpecRL, SpecOrder)
MaxCalls == 2        \* calls per period ranges over 1..MaxCalls (SpecRL)
TicksPerPeriod == 2  \* period = 1.0 time unit = TicksPerPeriod clock ticks (SpecRL)
MaxTime == 6         \* the clock stops at MaxTime ticks (SpecRL)
MaxAcq == 5          \* acquisitions recorded per source (SpecRL)
\* process_artwork tasks on the semaphore and the limiter together
OrderLimit == 2      \* max_concurrent_requests ranges over 1..OrderLimit (SpecOrder)
OrderAcq == 2        \* no attempt begins once acquire has returned OrderAcq times (SpecOrder)
NamesAcq == 4        \* calls of acquire that get past line 20, all names together (SpecRLNames)

Museums == 1..NumMuseums
Slots == 1..(IF MaxLimit >= SharedLimit /\ MaxLimit >= LaunchLimit THEN MaxLimit
             ELSE IF SharedLimit >= LaunchLimit THEN SharedLimit ELSE LaunchLimit)
Workers == Museums \X Slots
Signals == 1..MaxSignals
Callers == 1..NumCallers
Sentinel == 0        \* the None put on the queue to stop a worker

Min(a, b) == IF a <= b THEN a ELSE b
Max(a, b) == IF a >= b THEN a ELSE b

RECURSIVE Pow2(_)
Pow2(n) == IF n = 0 THEN 1 ELSE 2 * Pow2(n - 1)

VARIABLES
    crawlers,                  \* run_crawlers' crawlers: the museums selected (--museums)
    max_concurrent_requests,   \* CrawlerManager.max_concurrent_requests
    max_artworks_per_museum,   \* CrawlerManager.max_artworks_per_museum (NoCap = None)
    request_semaphore,         \* free units of the shared asyncio.Semaphore
    active_museums,            \* CrawlerManager.active_museums
    cpc,                       \* position of each crawl_museum coroutine
    ccancel,                   \* crawl_museum task has a pending cancel()
    num_workers,               \* crawl_museum's local num_workers
    session,                   \* crawler.session is not None
    work_queues,               \* CrawlerManager.work_queues[museum]
    handed,                    \* per museum, the identifiers queue.get() has returned so far
    stats,                     \* CrawlerManager.stats[museum]
    wpc,                       \* position of each worker coroutine
    cancel_req,                \* worker task (and the task it awaits) has a pending cancel()
    task,                      \* the process_artwork task a worker created last
    shutdown_event,            \* CrawlerManager.shutdown_event.is_set()
    sig,                       \* position of each _shutdown(signal) task
    sd_wait,                   \* the running_tasks the effective _shutdown gathers
    client_closed,             \* self.client.close() was called
    orch,                      \* position of run_crawlers / asyncio.run
    rates,                     \* RateLimiter._rates[name]: calls per period, 0 = name not in _rates
    locks,                     \* RateLimiter._locks[name].locked()
    last_check,                \* RateLimiter._last_check[name]
    now,                       \* time.monotonic(), in ticks
    cl,                        \* position of each direct caller of RateLimiter.acquire
    acq,                       \* per name, the instants at which acquire returned
    pa,                        \* position of each process_artwork run on the clocked limiter
    fetched                    \* per name, the calls of get_artwork_data made by them

cfgVars == <<crawlers, max_concurrent_requests, max_artworks_per_museum>>
ctlVars == <<active_museums, cpc, ccancel, num_workers, session, work_queues, handed>>
wrkVars == <<wpc, cancel_req, task>>
sdVars  == <<shutdown_event, sig, sd_wait, client_closed>>
rlVars  == <<rates, locks, last_check>>
clkVars == <<now, cl, acq, pa, fetched>>
vars == <<cfgVars, request_semaphore, ctlVars, stats, wrkVars, sdVars, orch, rlVars, clkVars>>

(* ---------------- process_artwork task records ---------------- *)
\* pc: none | created | sem_wait | rl_wait | fetch | save | backoff
\*     | ret_true | ret_false | raised | cancelled
\* fetches, sleeps, saves, saved and resp record what the task did: calls of
\* get_artwork_data, the backoff sleeps in order, calls of save_artwork, those of
\* them that returned, and what the adapter or the sink answered last.
NoTask == [pc |-> "none", id |-> 0, attempt |-> 0, fetches |-> 0,
           sleeps |-> <<>>, saves |-> 0, saved |-> 0, resp |-> "none"]
NewTask(i) == [NoTask EXCEPT !.pc = "created", !.id = i]

InFlight == {"created", "sem_wait", "rl_wait", "fetch", "save", "backoff"}
Finished == {"ret_true", "ret_false", "raised", "cancelled"}
\* positions inside "async with self.request_semaphore", after its acquire
InsideSem == {"rl_wait", "fetch", "save", "backoff"}

Museum(w) == w[1]
WorkersOf(m) == {w \in Workers : w[1] = m /\ w[2] <= num_workers[m]}

\* self.active_workers: a worker is added when created and never removed
active_workers == {w \in Workers : wpc[w] # "none"}
\* self.running_tasks: added after create_task, discarded in the worker's finally
running_tasks == {w \in Workers : wpc[w] = "await"}
SemHolders == {w \in Workers : task[w].pc \in InsideSem}

AllStarted == \A m \in crawlers : cpc[m] # "init"

NoStats == [total_processed |-> 0, successful |-> 0, failed |-> 0, total_artworks |-> 0]

\* the bound on max_concurrent_requests for the sources selected
LimitBound(cs) == IF cs = {1} THEN MaxLimit ELSE SharedLimit

\* Python truthiness of max_artworks_per_museum: None and 0 are both falsy
Truthy(cap) == cap # NoCap /\ cap # 0

\* a task that is not inside RateLimiter.acquire
IdleCaller == [pc |-> "idle", src |-> 0]

\* a process_artwork that has not begun or is over
NoAttempt == [pos |-> "out", src |-> 0]

\* CrawlerManager.__init__ has run and run_crawlers is about to create its tasks
InitManager ==
    /\ request_semaphore = max_concurrent_requests
    /\ active_museums = 0
    /\ cpc = [m \in Museums |-> "init"]
    /\ ccancel = [m \in Museums |-> FALSE]
    /\ num_workers = [m \in Museums |-> 0]
    /\ session = [m \in Museums |-> FALSE]
    /\ work_queues = [m \in Museums |-> <<>>]
    /\ handed = [m \in Museums |-> <<>>]
    /\ stats = [m \in Museums |-> NoStats]
    /\ wpc = [w \in Workers |-> "none"]
    /\ cancel_req = [w \in Workers |-> FALSE]
    /\ task = [w \in Workers |-> NoTask]
    /\ shutdown_event = FALSE
    /\ sig = [i \in Signals |-> "none"]
    /\ sd_wait = {}
    /\ client_closed = FALSE
    /\ orch = "gather"

\* RateLimiter.__init__ has run; in the crawl the clock is left out
InitLimiter ==
    /\ rates = [m \in Museums |-> 0]
    /\ locks = [m \in Museums |-> FALSE]
    /\ last_check = [m \in Museums |-> 0]
    /\ now = 0
    /\ cl = [p \in Callers |-> IdleCaller]
    /\ acq = [m \in Museums |-> <<>>]
    /\ pa = [p \in Callers |-> NoAttempt]
    /\ fetched = [m \in Museums |-> 0]

Init ==
    /\ crawlers \in {1..k : k \in Museums}
    /\ max_concurrent_requests \in 1..LimitBound(crawlers)
    /\ max_artworks_per_museum \in {NoCap} \cup (0..MaxCap)
    /\ InitManager
    /\ InitLimiter

(* ---------------- crawl_museum (Source Crawl Controller) ---------------- *)
\* a count without the floor of one worker
WorkerCount_NoFloor(limit, active) == Min(limit \div active, limit)

\* lines 95-96: workers of a museum, from the number of museums active at its start
WorkerCount(limit, active) == Min(Max(1, limit \div active), limit)

\* lines 121-122: artwork_ids[:max_artworks_per_museum] when the cap is truthy
Truncate(ids, cap) == IF Truthy(cap) THEN SubSeq(ids, 1, Min(Len(ids), cap)) ELSE ids

\* lines 127-130: put every identifier unless the shutdown event is set (put on an
\* unbounded Queue never suspends, so the event cannot change inside the loop)
Enqueued(ids, shutdown) == IF shutdown THEN <<>> ELSE ids

\* the finally block of crawl_museum: close_session, active_museums -= 1
CrawlFinally(m) ==
    /\ session' = [session EXCEPT ![m] = FALSE]
    /\ active_museums' = active_museums - 1

\* First run of crawl_museum, up to the await of get_artwork_ids.  The tasks of
\* run_crawlers start in creation order, before anything else is scheduled.
crawl_museum_start(m) ==
    /\ orch = "gather"
    /\ m \in crawlers
    /\ cpc[m] = "init"
    /\ \A k \in crawlers : k < m => cpc[k] # "init"
    /\ active_museums' = active_museums + 1
    /\ rates' = [rates EXCEPT ![m] = CallsPerSecond]
    /\ locks' = [locks EXCEPT ![m] = FALSE]
    /\ last_check' = [last_check EXCEPT ![m] = 0]
    /\ num_workers' = [num_workers EXCEPT
                          ![m] = WorkerCount(max_concurrent_requests, active_museums + 1)]
    /\ work_queues' = [work_queues EXCEPT ![m] = <<>>]
    /\ stats' = [stats EXCEPT ![m] = NoStats]
    /\ session' = [session EXCEPT ![m] = TRUE]
    /\ cpc' = [cpc EXCEPT ![m] = "discover"]
    /\ UNCHANGED <<cfgVars, request_semaphore, ccancel, handed, wrkVars, sdVars, orch,
                   clkVars>>

\* one sentinel too few
Sentinels_OneFewer(n) == [i \in 1..(n - 1) |-> Sentinel]

\* lines 142-143: put(None) once per worker
Sentinels(n) == [i \in 1..n |-> Sentinel]

\* get_artwork_ids returned n identifiers: fill the queue, create the workers,
\* put the sentinels, and suspend in gather(*workers).
crawl_museum_discovered(m, n) ==
    /\ AllStarted
    /\ cpc[m] = "discover"
    /\ ~ccancel[m]
    /\ LET ids == [i \in 1..n |-> i]
           kept == Truncate(ids, max_artworks_per_museum)
           sentinels == Sentinels(num_workers[m])
       IN  /\ stats' = [stats EXCEPT ![m].total_artworks = n]
           /\ work_queues' = [work_queues EXCEPT
                                 ![m] = Enqueued(kept, shutdown_event) \o sentinels]
    /\ wpc' = [w \in Workers |-> IF w \in WorkersOf(m) THEN "new" ELSE wpc[w]]
    /\ cpc' = [cpc EXCEPT ![m] = "gather"]
    /\ UNCHANGED <<cfgVars, request_semaphore, active_museums, ccancel, num_workers,
                   session, handed, cancel_req, task, sdVars, orch, rlVars, clkVars>>

\* get_artwork_ids raised: except Exception re-raises after the finally block
crawl_museum_discovery_fails(m) ==
    /\ AllStarted
    /\ cpc[m] = "discover"
    /\ ~ccancel[m]
    /\ CrawlFinally(m)
    /\ cpc' = [cpc EXCEPT ![m] = "raised"]
    /\ UNCHANGED <<cfgVars, request_semaphore, ccancel, num_workers, work_queues, handed,
                   stats,
                   wrkVars, sdVars, orch, rlVars, clkVars>>

\* the crawl_museum task was cancelled while awaiting get_artwork_ids
crawl_museum_cancelled(m) ==
    /\ cpc[m] = "discover"
    /\ ccancel[m]
    /\ CrawlFinally(m)
    /\ cpc' = [cpc EXCEPT ![m] = "cancelled"]
    /\ UNCHANGED <<cfgVars, request_semaphore, ccancel, num_workers, work_queues, handed,
                   stats,
                   wrkVars, sdVars, orch, rlVars, clkVars>>

\* gather(*workers, return_exceptions=True) is over once every worker is done; then
\* _log_museum_stats (which divides by total_artworks) and the finally block.  A
\* cancelled gather raises CancelledError once its children are done.
crawl_museum_gathered(m) ==
    /\ cpc[m] = "gather"
    /\ \A w \in WorkersOf(m) : wpc[w] = "done"
    /\ CrawlFinally(m)
    /\ cpc' = [cpc EXCEPT ![m] = IF ccancel[m] THEN "cancelled"
                                 ELSE IF stats[m].total_artworks = 0 THEN "raised"
                                 ELSE "returned"]
    /\ UNCHANGED <<cfgVars, request_semaphore, ccancel, num_workers, work_queues, handed,
                   stats,
                   wrkVars, sdVars, orch, rlVars, clkVars>>

(* ---------------- run_crawlers and asyncio.run ---------------- *)
\* asyncio.run cancels every task still pending when its main coroutine ends: a
\* _shutdown that has not run yet never runs ("cancelled"), one that waits for
\* running_tasks stops there ("aborted")
CancelShutdownTasks ==
    sig' = [i \in Signals |-> CASE sig[i] = "pending" -> "cancelled"
                                 [] sig[i] = "waiting" -> "aborted"
                                 [] OTHER -> sig[i]]

\* gather(*tasks) returned: every crawl_museum returned; finally closes the sessions
run_crawlers_return ==
    /\ orch = "gather"
    /\ \A m \in crawlers : cpc[m] = "returned"
    /\ orch' = "returned"
    /\ session' = [m \in Museums |-> FALSE]
    /\ CancelShutdownTasks
    /\ UNCHANGED <<cfgVars, request_semaphore, active_museums, cpc, ccancel, num_workers,
                   work_queues, handed, stats, wrkVars, shutdown_event, sd_wait,
                   client_closed,
                   rlVars, clkVars>>

\* gather(*tasks) has no return_exceptions: the first crawl_museum that raises makes
\* run_crawlers raise; its finally closes every session, and asyncio.run then
\* cancels every task that is left before it closes the loop.
run_crawlers_raise ==
    /\ orch = "gather"
    /\ AllStarted
    /\ \E m \in crawlers : cpc[m] = "raised"
    /\ orch' = "torn"
    /\ session' = [m \in Museums |-> FALSE]
    /\ ccancel' = [m \in Museums |-> cpc[m] \in {"discover", "gather"}]
    /\ cancel_req' = [w \in Workers |-> cancel_req[w] \/ wpc[w] \notin {"none", "done"}]
    /\ CancelShutdownTasks
    /\ UNCHANGED <<cfgVars, request_semaphore, active_museums, cpc, num_workers,
                   work_queues, handed, stats, wpc, task, shutdown_event, sd_wait,
                   client_closed,
                   rlVars, clkVars>>

(* ---------------- _shutdown ---------------- *)
\* a SIGINT or SIGTERM arrives: the handler of line 57 creates a _shutdown task
signal_received(i) ==
    /\ orch = "gather"
    /\ AllStarted
    /\ sig[i] = "none"
    /\ \A j \in Signals : j < i => sig[j] # "none"
    /\ sig' = [sig EXCEPT ![i] = "pending"]
    /\ UNCHANGED <<cfgVars, request_semaphore, ctlVars, stats, wrkVars, shutdown_event,
                   sd_wait, client_closed, orch, rlVars, clkVars>>

\* a test that never finds the event set
AlreadyShuttingDown_Never == FALSE

\* line 62: self.shutdown_event.is_set()
AlreadyShuttingDown == shutdown_event

\* lines 62-63: already shutting down
shutdown_noop(i) ==
    /\ orch = "gather"
    /\ sig[i] = "pending"
    /\ AlreadyShuttingDown
    /\ sig' = [sig EXCEPT ![i] = "returned"]
    /\ UNCHANGED <<cfgVars, request_semaphore, ctlVars, stats, wrkVars, shutdown_event,
                   sd_wait, client_closed, orch, rlVars, clkVars>>

\* a shutdown that cancels no worker
CancelWorkers_None == {}

\* lines 69-70: worker.cancel() for every worker in active_workers; cancelling a
\* worker that is done does nothing
CancelWorkers == {w \in active_workers : wpc[w] # "done"}

\* lines 65-78 up to the first suspension: set the event, cancel every worker, then
\* either wait for running_tasks or (none running) close the client at once
shutdown_first(i) ==
    /\ orch = "gather"
    /\ sig[i] = "pending"
    /\ ~AlreadyShuttingDown
    /\ shutdown_event' = TRUE
    /\ cancel_req' = [w \in Workers |-> cancel_req[w] \/ w \in CancelWorkers]
    /\ IF running_tasks # {}
       THEN /\ sig' = [sig EXCEPT ![i] = "waiting"]
            /\ sd_wait' = running_tasks
            /\ UNCHANGED client_closed
       ELSE /\ sig' = [sig EXCEPT ![i] = "done"]
            /\ client_closed' = TRUE
            /\ UNCHANGED sd_wait
    /\ UNCHANGED <<cfgVars, request_semaphore, ctlVars, stats, wpc, task, orch,
                   rlVars, clkVars>>

\* lines 75-79: gather(*running_tasks, return_exceptions=True) is over; close the client
shutdown_finish(i) ==
    /\ orch = "gather"
    /\ sig[i] = "waiting"
    /\ \A w \in sd_wait : task[w].pc \notin InFlight
    /\ sig' = [sig EXCEPT ![i] = "done"]
    /\ client_closed' = TRUE
    /\ UNCHANGED <<cfgVars, request_semaphore, ctlVars, stats, wrkVars, shutdown_event,
                   sd_wait, orch, rlVars, clkVars>>

(* ---------------- worker ---------------- *)
\* The loop running: run_crawlers still waits, or asyncio.run winds the tasks up
LoopRunning == orch \in {"gather", "torn"}

\* The workers of one museum are interchangeable, and asyncio serves them in the
\* order in which they became ready: of those at one position, the lowest slot runs.
FirstAt(w, pos) == \A v \in Workers : (v[1] = w[1] /\ v[2] < w[2]) => wpc[v] # pos

\* First run of a worker task.  A task cancelled before its first run never enters
\* its coroutine.  Otherwise line 164 tests the event and line 167 suspends in
\* wait_for(queue.get()).
worker_start(w) ==
    /\ LoopRunning
    /\ wpc[w] = "new"
    /\ FirstAt(w, "new")
    /\ wpc' = [wpc EXCEPT ![w] = IF cancel_req[w] \/ shutdown_event THEN "done" ELSE "get"]
    /\ UNCHANGED <<cfgVars, request_semaphore, ctlVars, stats, cancel_req, task, sdVars,
                   orch, rlVars, clkVars>>

\* lines 198-199: cancelled while in wait_for(queue.get()): leave the loop
worker_get_cancelled(w) ==
    /\ LoopRunning
    /\ wpc[w] = "get"
    /\ cancel_req[w]
    /\ wpc' = [wpc EXCEPT ![w] = "done"]
    /\ UNCHANGED <<cfgVars, request_semaphore, ctlVars, stats, cancel_req, task, sdVars,
                   orch, rlVars, clkVars>>

\* a get that leaves the item in the queue
Rest_Kept(q) == q

\* Queue.get removes the item it returns
Rest(q) == Tail(q)

\* lines 167-182: the get delivers the head of the queue; a sentinel ends the worker,
\* an identifier gets a process_artwork task that the worker awaits.  (The queue
\* holds one sentinel per worker behind the identifiers, so a get never times out.)
worker_got(w) ==
    /\ LoopRunning
    /\ wpc[w] = "get"
    /\ ~cancel_req[w]
    /\ FirstAt(w, "get")
    /\ work_queues[Museum(w)] # <<>>
    /\ LET item == Head(work_queues[Museum(w)])
       IN  /\ work_queues' = [work_queues EXCEPT ![Museum(w)] = Rest(@)]
           /\ IF item = Sentinel
              THEN /\ wpc' = [wpc EXCEPT ![w] = "done"]
                   /\ UNCHANGED <<task, handed>>
              ELSE /\ wpc' = [wpc EXCEPT ![w] = "await"]
                   /\ task' = [task EXCEPT ![w] = NewTask(item)]
                   /\ handed' = [handed EXCEPT ![Museum(w)] = Append(@, item)]
    /\ UNCHANGED <<cfgVars, request_semaphore, active_museums, cpc, ccancel, num_workers,
                   session, stats, cancel_req, sdVars, orch, rlVars, clkVars>>

\* What "await task" raises in the worker: CancelledError when the worker was
\* cancelled (also when the task had already finished), else the task's outcome
Awaited(w) == IF cancel_req[w] THEN "cancelled" ELSE task[w].pc

\* a count that books a cancelled item as failed
Counted_CancelFails(st, outcome) ==
    [st EXCEPT !.successful = @ + (IF outcome \in {"ret_true", "ret_false"} THEN 1 ELSE 0),
               !.failed = @ + (IF outcome \in {"raised", "cancelled"} THEN 1 ELSE 0),
               !.total_processed = @ + 1]

\* lines 183-190: successful += 1 after a normal return (True or False), failed += 1
\* in except Exception, total_processed += 1 in the finally block, whatever happened
Counted(st, outcome) ==
    [st EXCEPT !.successful = @ + (IF outcome \in {"ret_true", "ret_false"} THEN 1 ELSE 0),
               !.failed = @ + (IF outcome = "raised" THEN 1 ELSE 0),
               !.total_processed = @ + 1]

\* a worker that an error of its item stops
AfterItem_StopsOnError(w) ==
    IF Awaited(w) \in {"cancelled", "raised"} \/ shutdown_event THEN "done" ELSE "get"

\* lines 184-199 and 164: CancelledError breaks out of the loop, anything else
\* (a return, an Exception caught at line 184) goes back to the test of line 164
AfterItem(w) == IF Awaited(w) = "cancelled" \/ shutdown_event THEN "done" ELSE "get"

\* lines 182-199 and back to 164-167: the awaited task is over
worker_wake(w) ==
    /\ LoopRunning
    /\ wpc[w] = "await"
    /\ task[w].pc \in Finished
    /\ stats' = [stats EXCEPT ![Museum(w)] = Counted(@, Awaited(w))]
    /\ task' = [task EXCEPT ![w] = NoTask]
    /\ wpc' = [wpc EXCEPT ![w] = AfterItem(w)]
    /\ UNCHANGED <<cfgVars, request_semaphore, ctlVars, cancel_req, sdVars, orch,
                   rlVars, clkVars>>

(* ---------------- process_artwork ---------------- *)
\* line 232 at the top of an attempt: RateLimiter.acquire from inside
\* process_artwork.  The clock is abstracted here, so whether the source's lock is
\* taken (line 25) and whether time_passed < min_interval (line 28) are left open:
\* either the task is suspended inside acquire, or acquire returns at once and
\* get_artwork_data is called.
BeginAttempt(w, t) ==
    \/ task' = [task EXCEPT ![w] = [t EXCEPT !.pc = "rl_wait"]]
    \/ task' = [task EXCEPT ![w] = [t EXCEPT !.pc = "fetch", !.fetches = @ + 1]]

\* a semaphore whose acquire never waits
SemFree_NeverWaits == TRUE

\* line 228: a unit of the semaphore is free
SemFree == request_semaphore > 0

\* first run of the task: async with self.request_semaphore
process_artwork_start(w) ==
    /\ LoopRunning
    /\ task[w].pc = "created"
    /\ ~cancel_req[w]
    /\ IF SemFree
       THEN /\ request_semaphore' = request_semaphore - 1
            /\ BeginAttempt(w, task[w])
       ELSE /\ task' = [task EXCEPT ![w].pc = "sem_wait"]
            /\ UNCHANGED request_semaphore
    /\ UNCHANGED <<cfgVars, ctlVars, stats, wpc, cancel_req, sdVars, orch, rlVars, clkVars>>

\* a waiter of the semaphore gets its unit
process_artwork_sem_acquired(w) ==
    /\ LoopRunning
    /\ task[w].pc = "sem_wait"
    /\ ~cancel_req[w]
    /\ SemFree
    /\ request_semaphore' = request_semaphore - 1
    /\ BeginAttempt(w, task[w])
    /\ UNCHANGED <<cfgVars, ctlVars, stats, wpc, cancel_req, sdVars, orch, rlVars, clkVars>>

\* acquire returns to a task suspended in it (lines 29-30), and get_artwork_data
\* is called
process_artwork_rl_wake(w) ==
    /\ LoopRunning
    /\ task[w].pc = "rl_wait"
    /\ ~cancel_req[w]
    /\ task' = [task EXCEPT ![w].pc = "fetch", ![w].fetches = @ + 1]
    /\ UNCHANGED <<cfgVars, request_semaphore, ctlVars, stats, wpc, cancel_req, sdVars,
                   orch, rlVars, clkVars>>

\* a backoff that does not grow
Backoff_Constant(attempt) == 1

\* line 248: asyncio.sleep(2 ** attempt)
Backoff(attempt) == Pow2(attempt)

\* a test that lets one attempt too many through
LastAttempt_OneMore(t) == t.attempt = MaxRetries

\* line 246: attempt == self.max_retries - 1
LastAttempt(t) == t.attempt = MaxRetries - 1

\* lines 245-248: an attempt raised: re-raise on the last attempt (leaving the
\* semaphore), else sleep 2 ** attempt, still inside "async with"
Failed(t) ==
    IF LastAttempt(t)
    THEN [t EXCEPT !.pc = "raised"]
    ELSE [t EXCEPT !.pc = "backoff", !.sleeps = Append(@, Backoff(t.attempt))]

\* a fetch whose "not found" is retried like an error
Fetched_RetriesNotFound(t, r) ==
    CASE r = "data" -> [t EXCEPT !.pc = "save", !.saves = @ + 1, !.resp = r]
      [] r = "empty" -> [t EXCEPT !.pc = "ret_false", !.resp = r]
      [] OTHER -> Failed([t EXCEPT !.resp = r])

\* the task after get_artwork_data and transform_data gave r
Fetched(t, r) ==
    CASE r = "data" -> [t EXCEPT !.pc = "save", !.saves = @ + 1, !.resp = r]
      [] r \in {"notfound", "empty"} -> [t EXCEPT !.pc = "ret_false", !.resp = r]
      [] OTHER -> Failed([t EXCEPT !.resp = r])

\* the task after save_artwork gave r
Saved(t, r) ==
    IF r = "ok" THEN [t EXCEPT !.pc = "ret_true", !.saved = @ + 1, !.resp = r]
    ELSE Failed([t EXCEPT !.resp = r])

\* a unit that a cancelled task keeps
Released_NotOnCancel(sem, before, after) ==
    IF before \in InsideSem /\ after \notin InsideSem /\ after # "cancelled" THEN sem + 1
    ELSE sem

\* leaving "async with self.request_semaphore" releases the unit
Released(sem, before, after) ==
    IF before \in InsideSem /\ after \notin InsideSem THEN sem + 1 ELSE sem

\* lines 234-242: get_artwork_data returned raw data ("data": transform_data gave a
\* record and save_artwork is called), None ("notfound"), data that transform_data
\* maps to None ("empty"), or one of the two raised ("error")
process_artwork_fetched(w, r) ==
    /\ LoopRunning
    /\ task[w].pc = "fetch"
    /\ ~cancel_req[w]
    /\ task' = [task EXCEPT ![w] = Fetched(@, r)]
    /\ request_semaphore' = Released(request_semaphore, "fetch", Fetched(task[w], r).pc)
    /\ UNCHANGED <<cfgVars, ctlVars, stats, wpc, cancel_req, sdVars, orch, rlVars, clkVars>>

\* lines 242-243: save_artwork returned ("ok") or raised ("error")
process_artwork_saved(w, r) ==
    /\ LoopRunning
    /\ task[w].pc = "save"
    /\ ~cancel_req[w]
    /\ task' = [task EXCEPT ![w] = Saved(@, r)]
    /\ request_semaphore' = Released(request_semaphore, "save", Saved(task[w], r).pc)
    /\ UNCHANGED <<cfgVars, ctlVars, stats, wpc, cancel_req, sdVars, orch, rlVars, clkVars>>

\* line 248 is over: the next attempt of the for loop
process_artwork_backoff_wake(w) ==
    /\ LoopRunning
    /\ task[w].pc = "backoff"
    /\ ~cancel_req[w]
    /\ BeginAttempt(w, [task[w] EXCEPT !.attempt = @ + 1])
    /\ UNCHANGED <<cfgVars, request_semaphore, ctlVars, stats, wpc, cancel_req, sdVars,
                   orch, rlVars, clkVars>>

\* CancelledError at the task's suspension point (or before its first run): it
\* passes "except Exception", and the context managers release what the task holds
process_artwork_cancelled(w) ==
    /\ LoopRunning
    /\ task[w].pc \in InFlight
    /\ cancel_req[w]
    /\ task' = [task EXCEPT ![w] = [NoTask EXCEPT !.pc = "cancelled", !.id = task[w].id]]
    /\ request_semaphore' = Released(request_semaphore, task[w].pc, "cancelled")
    /\ UNCHANGED <<cfgVars, ctlVars, stats, wpc, cancel_req, sdVars, orch, rlVars, clkVars>>

FetchResults == {"data", "notfound", "empty", "error"}
SaveResults == {"ok", "error"}

\* the crawl itself: what a run does when nothing is cancelled and no task has to
\* wait for a unit of the semaphore
Crawl(ids) ==
    \/ \E m \in Museums : crawl_museum_start(m)
    \/ \E m \in Museums, n \in 0..ids : crawl_museum_discovered(m, n)
    \/ \E m \in Museums : crawl_museum_discovery_fails(m)
    \/ \E m \in Museums : crawl_museum_gathered(m)
    \/ run_crawlers_return
    \/ run_crawlers_raise
    \/ \E w \in Workers : worker_start(w)
    \/ \E w \in Workers : worker_got(w)
    \/ \E w \in Workers : worker_wake(w)
    \/ \E w \in Workers : process_artwork_start(w)
    \/ \E w \in Workers : process_artwork_rl_wake(w)
    \/ \E w \in Workers, r \in FetchResults : process_artwork_fetched(w, r)
    \/ \E w \in Workers, r \in SaveResults : process_artwork_saved(w, r)
    \/ \E w \in Workers : process_artwork_backoff_wake(w)

\* CancelledError delivered to workers and process_artwork tasks
Cancellations ==
    \/ \E w \in Workers : worker_get_cancelled(w)
    \/ \E w \in Workers : process_artwork_cancelled(w)

\* SIGINT / SIGTERM and the _shutdown tasks they create
Interrupts ==
    \/ \E i \in Signals : signal_received(i)
    \/ \E i \in Signals : shutdown_noop(i)
    \/ \E i \in Signals : shutdown_first(i)
    \/ \E i \in Signals : shutdown_finish(i)

\* what only a run of several sources does: a task waits for a unit of the
\* semaphore (one source has as many workers as there are units), and a
\* crawl_museum is cancelled because a sibling raised
Siblings ==
    \/ \E w \in Workers : process_artwork_sem_acquired(w)
    \/ \E m \in Museums : crawl_museum_cancelled(m)

InitOne == Init /\ crawlers = {1}
InitOneNoCap == InitOne /\ max_artworks_per_museum = NoCap
InitTwoNoCap == Init /\ crawlers = Museums /\ max_artworks_per_museum = NoCap

\* runs of one source (--museums with one name) that no signal interrupts, with
\* every item cap
NextQuietOne == Crawl(MaxIds)
SpecQuietOne == InitOne /\ [][NextQuietOne]_vars

\* runs of one source, without an item cap, under any number of signals
Next == Crawl(SignalledIds) \/ Interrupts \/ Cancellations
Spec == InitOneNoCap /\ [][Next]_vars

\* runs of one source, without an item cap, under any number of signals, with
\* several identifiers to hand out
NextHandOut == Crawl(HandOutIds) \/ Interrupts \/ Cancellations
SpecHandOut == InitOneNoCap /\ [][NextHandOut]_vars

\* What the event loop does by itself: it runs every task that is ready (a task
\* just created, cancelled, or whose awaited task or gather is over).  Arrivals from
\* outside (a signal, a response of the adapter or the sink, a timer) are not in it.
Scheduled ==
    \/ \E w \in Workers : worker_start(w)
    \/ \E w \in Workers : worker_get_cancelled(w)
    \/ \E w \in Workers : worker_wake(w)
    \/ \E w \in Workers : process_artwork_cancelled(w)
    \/ \E m \in Museums : crawl_museum_gathered(m)
    \/ \E i \in Signals : shutdown_noop(i)
    \/ \E i \in Signals : shutdown_first(i)
    \/ \E i \in Signals : shutdown_finish(i)
    \/ run_crawlers_return
    \/ run_crawlers_raise

\* Spec with the event loop's guarantee that a ready task is run
SpecFair == InitOneNoCap /\ [][Next]_vars /\ WF_vars(Scheduled)

\* runs of two sources, without an item cap, that no signal interrupts: tasks are
\* cancelled when a crawl_museum raises and run_crawlers tears the run down
NextTwo == Crawl(SharedIds) \/ Siblings \/ Cancellations
SpecTwo == InitTwoNoCap /\ [][NextTwo]_vars

\* runs of two sources, without an item cap, under any number of signals: items of
\* both sources share the units of the semaphore when a shutdown cancels them
NextTwoSignalled == Crawl(SharedIds) \/ Siblings \/ Interrupts \/ Cancellations
SpecTwoSignalled == InitTwoNoCap /\ [][NextTwoSignalled]_vars

\* SpecTwo with a loop that keeps running while anything can run, every call of
\* an adapter or of the sink answering in the end
SpecTwoFair == InitTwoNoCap /\ [][NextTwo]_vars /\ WF_vars(NextTwo)

\* runs of two sources under every limit argparse accepts and Semaphore takes, 0
\* included (--max-concurrent is an int that nothing validates)
InitLaunch ==
    /\ crawlers = Museums
    /\ max_concurrent_requests \in 0..LaunchLimit
    /\ max_artworks_per_museum = NoCap
    /\ InitManager
    /\ InitLimiter

SpecLaunch == InitLaunch /\ [][NextTwo]_vars

(* ---------------- RateLimiter on a clock ---------------- *)
\* The limiter driven directly by NumCallers tasks, with the clock of
\* time.monotonic() in ticks, TicksPerPeriod of them to the period.  rates[m] = 0
\* stands for a name configure was never called for, and acq[m] lists the
\* instants at which acquire(m) returned for a configured name m.

\* line 28 negated: time_passed >= min_interval, with min_interval = period / calls
Due_Always(m) == TRUE
Due(m) == (now - last_check[m]) * rates[m] >= TicksPerPeriod

\* tasks inside acquire(m)
Inside(m) == {p \in Callers : cl[p].pc # "idle" /\ cl[p].src = m}

\* a lock that stays taken when its holder leaves
Unlocked_StillHeld(m) == locks

\* a lock whose release frees the locks of all names
Unlocked_AllNames(m) == [k \in Museums |-> FALSE]

\* leaving "async with self._locks[name]" (line 25) releases the lock
Unlocked(m) == [locks EXCEPT ![m] = FALSE]

\* line 30 and the return: _last_check is set, the lock is released
Return(p, m) ==
    /\ last_check' = [last_check EXCEPT ![m] = now]
    /\ locks' = Unlocked(m)
    /\ acq' = [acq EXCEPT ![m] = Append(@, now)]
    /\ cl' = [cl EXCEPT ![p] = IdleCaller]

\* lines 25-30 once the lock is got: return at once when the interval has passed,
\* else sleep holding the lock
Locked(p, m) ==
    IF Due(m)
    THEN Return(p, m)
    ELSE /\ locks' = [locks EXCEPT ![m] = TRUE]
         /\ cl' = [cl EXCEPT ![p] = [pc |-> "sleep", src |-> m]]
         /\ UNCHANGED <<last_check, acq>>

\* a task calls acquire(m): lines 19-20 return for a name that is not configured,
\* line 25 waits when the lock is taken
acquire_call(p, m) ==
    /\ cl[p].pc = "idle"
    /\ Len(acq[m]) + Cardinality(Inside(m)) < MaxAcq
    /\ IF rates[m] = 0
       THEN UNCHANGED <<locks, last_check, cl, acq>>
       ELSE IF locks[m]
            THEN /\ cl' = [cl EXCEPT ![p] = [pc |-> "lock_wait", src |-> m]]
                 /\ UNCHANGED <<locks, last_check, acq>>
            ELSE Locked(p, m)
    /\ UNCHANGED <<cfgVars, request_semaphore, ctlVars, stats, wrkVars, sdVars, orch,
                   rates, now, pa, fetched>>

\* a waiter gets the lock
acquire_locked(p) ==
    /\ cl[p].pc = "lock_wait"
    /\ ~locks[cl[p].src]
    /\ Locked(p, cl[p].src)
    /\ UNCHANGED <<cfgVars, request_semaphore, ctlVars, stats, wrkVars, sdVars, orch,
                   rates, now, pa, fetched>>

\* line 29 is over: asyncio.sleep(d) returns d or more after it was called
acquire_wake(p) ==
    /\ cl[p].pc = "sleep"
    /\ Due(cl[p].src)
    /\ Return(p, cl[p].src)
    /\ UNCHANGED <<cfgVars, request_semaphore, ctlVars, stats, wrkVars, sdVars, orch,
                   rates, now, pa, fetched>>

\* the calling task is cancelled at line 25 or line 29: "async with" releases the
\* lock it holds, _last_check stays
acquire_cancelled(p) ==
    /\ cl[p].pc \in {"lock_wait", "sleep"}
    /\ locks' = IF cl[p].pc = "sleep" THEN Unlocked(cl[p].src) ELSE locks
    /\ cl' = [cl EXCEPT ![p] = IdleCaller]
    /\ UNCHANGED <<cfgVars, request_semaphore, ctlVars, stats, wrkVars, sdVars, orch,
                   rates, last_check, now, acq, pa, fetched>>

\* the clock advances
tick ==
    /\ now < MaxTime
    /\ now' = now + 1
    /\ UNCHANGED <<cfgVars, request_semaphore, ctlVars, stats, wrkVars, sdVars, orch,
                   rlVars, cl, acq, pa, fetched>>

NextRL ==
    \/ \E p \in Callers, m \in Museums : acquire_call(p, m)
    \/ \E p \in Callers : acquire_locked(p)
    \/ \E p \in Callers : acquire_wake(p)
    \/ \E p \in Callers : acquire_cancelled(p)
    \/ tick

\* configure(name, calls, 1.0) was called once for the first name (lines 13-15) and
\* never for the others, and the first acquire comes at any reading of the clock
InitRL ==
    /\ crawlers = {1}
    /\ max_concurrent_requests = 1
    /\ max_artworks_per_museum = NoCap
    /\ InitManager
    /\ \E calls \in 1..MaxCalls : rates = [m \in Museums |-> IF m = 1 THEN calls ELSE 0]
    /\ locks = [m \in Museums |-> FALSE]
    /\ last_check = [m \in Museums |-> 0]
    /\ now \in 0..TicksPerPeriod
    /\ cl = [p \in Callers |-> IdleCaller]
    /\ acq = [m \in Museums |-> <<>>]
    /\ pa = [p \in Callers |-> NoAttempt]
    /\ fetched = [m \in Museums |-> 0]

SpecRL == InitRL /\ [][NextRL]_vars

\* configure was called for any of the names, each with its own rate, or for none
InitRLNames ==
    /\ crawlers = Museums
    /\ max_concurrent_requests = 1
    /\ max_artworks_per_museum = NoCap
    /\ InitManager
    /\ rates \in [Museums -> 0..MaxCalls]
    /\ locks = [m \in Museums |-> FALSE]
    /\ last_check = [m \in Museums |-> 0]
    /\ now \in 0..TicksPerPeriod
    /\ cl = [p \in Callers |-> IdleCaller]
    /\ acq = [m \in Museums |-> <<>>]
    /\ pa = [p \in Callers |-> NoAttempt]
    /\ fetched = [m \in Museums |-> 0]

\* calls of acquire made so far that got past line 20, for the names in S
RECURSIVE Entered(_)
Entered(S) ==
    IF S = {} THEN 0
    ELSE LET m == CHOOSE x \in S : TRUE
         IN  Len(acq[m]) + Cardinality(Inside(m)) + Entered(S \ {m})

\* the limiter driven directly for several names at once
NextRLNames ==
    \/ \E p \in Callers, m \in Museums : Entered(Museums) < NamesAcq /\ acquire_call(p, m)
    \/ \E p \in Callers : acquire_locked(p)
    \/ \E p \in Callers : acquire_wake(p)
    \/ \E p \in Callers : acquire_cancelled(p)
    \/ tick

SpecRLNames == InitRLNames /\ [][NextRLNames]_vars

(* ---------------- process_artwork on the clocked limiter ---------------- *)
\* NumCallers process_artwork tasks with the semaphore and the locks of the limiter
\* both explicit.  Every name is configured, as crawl_museum does (lines 88-92)
\* before it creates a worker.  pa[p].pos: out | sem_wait | acquire | fetch | backoff.

At(p, pos, m) == [pa EXCEPT ![p] = [pos |-> pos, src |-> m]]

\* the number of times acquire has returned, for the names in S
RECURSIVE Acquisitions(_)
Acquisitions(S) ==
    IF S = {} THEN 0
    ELSE LET m == CHOOSE x \in S : TRUE IN Len(acq[m]) + Acquisitions(S \ {m})

\* line 234 follows the return of acquire without a suspension in between
CallFetch(p, m) ==
    /\ pa' = At(p, "fetch", m)
    /\ fetched' = [fetched EXCEPT ![m] = @ + 1]

\* an attempt that calls the fetch without the limiter
Acquire_Skipped(p, m) ==
    /\ CallFetch(p, m)
    /\ UNCHANGED <<locks, last_check, cl, acq>>

\* line 232 with a unit of the semaphore held: acquire waits for the lock (line 25),
\* sleeps holding it (line 29), or returns at once, and then the fetch is called
Acquire(p, m) ==
    IF locks[m]
    THEN /\ cl' = [cl EXCEPT ![p] = [pc |-> "lock_wait", src |-> m]]
         /\ pa' = At(p, "acquire", m)
         /\ UNCHANGED <<locks, last_check, acq, fetched>>
    ELSE /\ Locked(p, m)
         /\ IF Due(m) THEN CallFetch(p, m)
            ELSE pa' = At(p, "acquire", m) /\ UNCHANGED fetched

\* first run of a process_artwork for source m: line 228, and with a unit line 232
attempt_enter(p, m) ==
    /\ pa[p].pos = "out"
    /\ Acquisitions(Museums) < OrderAcq
    /\ IF SemFree
       THEN /\ request_semaphore' = request_semaphore - 1
            /\ Acquire(p, m)
       ELSE /\ pa' = At(p, "sem_wait", m)
            /\ UNCHANGED <<request_semaphore, locks, last_check, cl, acq, fetched>>
    /\ UNCHANGED <<cfgVars, ctlVars, stats, wrkVars, sdVars, orch, rates, now>>

\* a waiter of the semaphore gets its unit and goes on to line 232
attempt_sem_acquired(p) ==
    /\ pa[p].pos = "sem_wait"
    /\ SemFree
    /\ request_semaphore' = request_semaphore - 1
    /\ Acquire(p, pa[p].src)
    /\ UNCHANGED <<cfgVars, ctlVars, stats, wrkVars, sdVars, orch, rates, now>>

\* a waiter of the lock gets it, inside the semaphore
attempt_lock_acquired(p) ==
    /\ pa[p].pos = "acquire"
    /\ cl[p].pc = "lock_wait"
    /\ ~locks[cl[p].src]
    /\ Locked(p, cl[p].src)
    /\ IF Due(cl[p].src) THEN CallFetch(p, cl[p].src) ELSE UNCHANGED <<pa, fetched>>
    /\ UNCHANGED <<cfgVars, request_semaphore, ctlVars, stats, wrkVars, sdVars, orch,
                   rates, now>>

\* the sleep of line 29 is over: acquire returns and the fetch is called
attempt_acquire_wake(p) ==
    /\ pa[p].pos = "acquire"
    /\ cl[p].pc = "sleep"
    /\ Due(cl[p].src)
    /\ Return(p, cl[p].src)
    /\ CallFetch(p, cl[p].src)
    /\ UNCHANGED <<cfgVars, request_semaphore, ctlVars, stats, wrkVars, sdVars, orch,
                   rates, now>>

\* lines 235-243 and 246-247: the attempt returns True or False, or raises for the
\* last time: process_artwork leaves "async with self.request_semaphore"
attempt_leaves(p) ==
    /\ pa[p].pos = "fetch"
    /\ pa' = [pa EXCEPT ![p] = NoAttempt]
    /\ request_semaphore' = request_semaphore + 1
    /\ UNCHANGED <<cfgVars, ctlVars, stats, wrkVars, sdVars, orch, rlVars, now, cl, acq,
                   fetched>>

\* line 248: the attempt raised and another is left: sleep inside the semaphore
attempt_failed(p) ==
    /\ pa[p].pos = "fetch"
    /\ pa' = At(p, "backoff", pa[p].src)
    /\ UNCHANGED <<cfgVars, request_semaphore, ctlVars, stats, wrkVars, sdVars, orch,
                   rlVars, now, cl, acq, fetched>>

\* the backoff is over: the next attempt begins at line 232
attempt_backoff_wake(p) ==
    /\ pa[p].pos = "backoff"
    /\ Acquisitions(Museums) < OrderAcq
    /\ Acquire(p, pa[p].src)
    /\ UNCHANGED <<cfgVars, request_semaphore, ctlVars, stats, wrkVars, sdVars, orch,
                   rates, now>>

\* the task is cancelled where it is suspended: the context managers release the
\* lock and the unit it holds
attempt_cancelled(p) ==
    /\ pa[p].pos # "out"
    /\ locks' = IF cl[p].pc = "sleep" THEN Unlocked(cl[p].src) ELSE locks
    /\ cl' = [cl EXCEPT ![p] = IdleCaller]
    /\ request_semaphore' = IF pa[p].pos = "sem_wait" THEN request_semaphore
                            ELSE request_semaphore + 1
    /\ pa' = [pa EXCEPT ![p] = NoAttempt]
    /\ UNCHANGED <<cfgVars, ctlVars, stats, wrkVars, sdVars, orch, rates, last_check, now,
                   acq, fetched>>

NextOrder ==
    \/ \E p \in Callers, m \in Museums : attempt_enter(p, m)
    \/ \E p \in Callers : attempt_sem_acquired(p)
    \/ \E p \in Callers : attempt_lock_acquired(p)
    \/ \E p \in Callers : attempt_acquire_wake(p)
    \/ \E p \in Callers : attempt_leaves(p)
    \/ \E p \in Callers : attempt_failed(p)
    \/ \E p \in Callers : attempt_backoff_wake(p)
    \/ \E p \in Callers : attempt_cancelled(p)
    \/ tick

\* both sources configured, any limit from 1, the clock at any reading
InitOrder ==
    /\ crawlers = Museums
    /\ max_concurrent_requests \in 1..OrderLimit
    /\ max_artworks_per_museum = NoCap
    /\ InitManager
    /\ rates \in [Museums -> 1..MaxCalls]
    /\ locks = [m \in Museums |-> FALSE]
    /\ last_check = [m \in Museums |-> 0]
    /\ now \in 0..TicksPerPeriod
    /\ cl = [p \in Callers |-> IdleCaller]
    /\ acq = [m \in Museums |-> <<>>]
    /\ pa = [p \in Callers |-> NoAttempt]
    /\ fetched = [m \in Museums |-> 0]

SpecOrder == InitOrder /\ [][NextOrder]_vars

(* ======================= properties ======================= *)

\* C1: in every reachable state the number of process_artwork operations that
\* hold a unit of the global semaphore, over all sources together, is at most
\* max_concurrent_requests, however many workers the sources launched.
C1_SemaphoreBound == Cardinality(SemHolders) <= max_concurrent_requests

\* every unit is held while a task of another source waits for one: more workers
\* are running than there are units
C1_Witness ==
    /\ Cardinality(SemHolders) = max_concurrent_requests
    /\ \E v \in SemHolders, w \in Workers :
          Museum(v) # Museum(w) /\ task[w].pc = "sem_wait"

\* crawl_museum returned and the shutdown event was never set
Completed(m) == cpc[m] = "returned" /\ ~shutdown_event

\* what a cap leaves of n discovered identifiers
Capped(n, cap) == IF cap = NoCap THEN n ELSE Min(n, cap)

\* C2: for every source run that completes without the shutdown event set, for
\* every discovered count, every item cap (none included) and every concurrency
\* limit, total_processed = successful + failed and total_processed =
\* min(discovered, cap), the discovered count itself when no cap is configured.
C2_CompletedRunTotals ==
    \A m \in crawlers :
        Completed(m) =>
            /\ stats[m].total_processed = stats[m].successful + stats[m].failed
            /\ stats[m].total_processed =
                   Capped(stats[m].total_artworks, max_artworks_per_museum)

\* every worker crawl_museum created for m is over
WorkersTerminated(m) ==
    /\ cpc[m] \in {"gather", "returned", "raised", "cancelled"}
    /\ num_workers[m] > 0
    /\ \A w \in WorkersOf(m) : wpc[w] = "done"

\* C3: once all workers of a source have terminated, whether its queue drained or
\* the shutdown cancelled workers while they dequeued or processed an item,
\* total_processed = successful + failed and total_processed <= total discovered.
C3_AccountingSurvivesCancellation ==
    \A m \in crawlers :
        WorkersTerminated(m) =>
            /\ stats[m].total_processed = stats[m].successful + stats[m].failed
            /\ stats[m].total_processed <= stats[m].total_artworks

\* C4: for a configured source any two consecutive returns of acquire are at least
\* period / calls apart, however many tasks call it concurrently, so that n
\* acquisitions span at least (n - 1) * period / calls.
C4_MinimumSpacing ==
    \A m \in Museums :
        rates[m] > 0 =>
            /\ \A i \in 1..(Len(acq[m]) - 1) :
                  (acq[m][i + 1] - acq[m][i]) * rates[m] >= TicksPerPeriod
            /\ Len(acq[m]) > 0 =>
                  (acq[m][Len(acq[m])] - acq[m][1]) * rates[m]
                      >= (Len(acq[m]) - 1) * TicksPerPeriod

\* five acquisitions with calls = 2 that took exactly two periods, the least allowed
C4_Witness ==
    \E m \in Museums :
        /\ rates[m] = 2
        /\ Len(acq[m]) = 5
        /\ (acq[m][5] - acq[m][1]) * 2 = 4 * TicksPerPeriod

\* the adapter answered "not found", or transform_data gave None
Skipped(t) == t.resp \in {"notfound", "empty"}

\* C5 (as amended): when get_artwork_data returns None or transform_data returns
\* None, processing of the item ends at that attempt: the fetch of that attempt is
\* the item's last (one fetch per attempt begun), no backoff sleep follows it, no
\* further attempt is made, and save_artwork is called neither in that attempt nor
\* later; on the first attempt the fetch is the item's only one, no sleep occurs
\* and save_artwork is never called for the item.
C5_SkipEndsProcessing ==
    /\ [](\A w \in Workers :
            Skipped(task[w]) =>
                /\ task[w].pc = "ret_false"
                /\ task[w].fetches = task[w].attempt + 1
                /\ Len(task[w].sleeps) = task[w].attempt
                /\ task[w].saves <= task[w].attempt
                /\ task[w].saved = 0)
    /\ [][\A w \in Workers :
            task[w].pc = "ret_false" => task'[w] \in {task[w], NoTask}]_vars

\* C5 as stated: at a skip the fetch was called exactly once for the item, no
\* backoff sleep occurred and save_artwork was never called for it.
C5_FetchedExactlyOnce ==
    \A w \in Workers :
        Skipped(task[w]) =>
            /\ task[w].fetches = 1
            /\ task[w].sleeps = <<>>
            /\ task[w].saves = 0

\* a skip on the second attempt, after save_artwork raised in the first
C5_Witness ==
    \E w \in Workers :
        /\ task[w].pc = "ret_false"
        /\ task[w].resp = "notfound"
        /\ task[w].attempt = 1
        /\ task[w].saves = 1

\* the worker w resumes after its task returned or raised outcome, not cancelled
Resumes(w, outcome) ==
    /\ wpc[w] = "await"
    /\ task[w].pc = outcome
    /\ ~cancel_req[w]
    /\ wpc'[w] # "await"

\* C6: an item whose fetch returns "not found" is a distinct skip outcome that
\* increments neither successful nor failed (so one source with 5 identifiers, one
\* of them always "not found", ends with successful = 4, failed = 0,
\* total_processed = 5).
C6_SkipIsThirdOutcome ==
    [][\A w \in Workers :
          (Resumes(w, "ret_false") /\ task[w].resp = "notfound") =>
              /\ stats'[Museum(w)].successful = stats[Museum(w)].successful
              /\ stats'[Museum(w)].failed = stats[Museum(w)].failed
              /\ stats'[Museum(w)].total_processed = stats[Museum(w)].total_processed + 1]_vars

\* C7: an item whose first k attempts (0 <= k < MaxRetries) raise and whose attempt
\* k + 1 succeeds makes exactly k + 1 attempts, sleeps exactly k times, for 2^0,
\* 2^1, ..., 2^(k-1) in that order, persists once, and the worker (unless it is
\* cancelled) increments successful once and failed not at all.
C7_RetryThenSuccess ==
    /\ [](\A w \in Workers :
            task[w].pc = "ret_true" =>
                /\ task[w].attempt \in 0..(MaxRetries - 1)
                /\ task[w].fetches = task[w].attempt + 1
                /\ task[w].sleeps = [i \in 1..task[w].attempt |-> 2^(i - 1)]
                /\ task[w].saved = 1)
    /\ [][\A w \in Workers :
            Resumes(w, "ret_true") =>
                /\ stats'[Museum(w)].successful = stats[Museum(w)].successful + 1
                /\ stats'[Museum(w)].failed = stats[Museum(w)].failed]_vars

\* success on the third attempt, after sleeps of 1 and 2
C7_Witness ==
    \E w \in Workers :
        /\ wpc[w] = "await"
        /\ ~cancel_req[w]
        /\ task[w].pc = "ret_true"
        /\ task[w].attempt = 2
        /\ task[w].sleeps = <<1, 2>>

\* C8: no item is attempted more than MaxRetries times; an item whose every attempt
\* raises is attempted exactly MaxRetries times, with no backoff sleep after the
\* last attempt; the error then reaches the worker, which (unless it is cancelled)
\* increments failed once, successful not at all and total_processed once.
C8_RetriesExhausted ==
    /\ [](\A w \in Workers :
            /\ task[w].fetches <= MaxRetries
            /\ task[w].attempt < MaxRetries
            /\ task[w].pc = "raised" =>
                  /\ task[w].fetches = MaxRetries
                  /\ Len(task[w].sleeps) = MaxRetries - 1
                  /\ task[w].saved = 0)
    /\ [][\A w \in Workers :
            Resumes(w, "raised") =>
                /\ stats'[Museum(w)].failed = stats[Museum(w)].failed + 1
                /\ stats'[Museum(w)].successful = stats[Museum(w)].successful
                /\ stats'[Museum(w)].total_processed =
                       stats[Museum(w)].total_processed + 1]_vars

\* an item has used up its MaxRetries attempts, the error is on its way to a
\* worker that is not cancelled
C8_Witness ==
    \E w \in Workers :
        /\ wpc[w] = "await"
        /\ ~cancel_req[w]
        /\ task[w].pc = "raised"
        /\ task[w].fetches = MaxRetries
        /\ task[w].sleeps = <<1, 2>>

\* the _shutdown invocations that went past the test of line 62
Performers == {i \in Signals : sig[i] \in {"waiting", "done", "aborted"}}

\* what a _shutdown invocation can affect, its own position apart
shutdownEffects == <<cfgVars, request_semaphore, ctlVars, stats, wrkVars, shutdown_event,
                     sd_wait, client_closed, orch, rlVars, clkVars>>

\* C9: shutdown_event, once set, is never cleared; and for any number of signals in
\* any interleaving the shutdown actions (cancel the workers, await the in-flight
\* tasks, close the client) are performed by exactly one _shutdown invocation, every
\* later invocation returning without any effect (or never running, its task
\* cancelled when run_crawlers is over).
C9_ShutdownOnce ==
    /\ [][shutdown_event => shutdown_event']_vars
    /\ [](Cardinality(Performers) <= 1)
    /\ []((shutdown_event \/ client_closed) => Cardinality(Performers) = 1)
    /\ [][\A i \in Signals :
            (sig[i] = "pending" /\ sig'[i] # "pending" /\ shutdown_event) =>
                \/ sig'[i] = "returned" /\ UNCHANGED shutdownEffects
                \/ sig'[i] = "cancelled" /\ orch' # "gather"]_vars

\* one invocation has closed the client, a later one has returned at line 63
C9_Witness ==
    \E i \in Signals, j \in Signals :
        /\ i < j
        /\ sig[i] = "done"
        /\ sig[j] = "returned"
        /\ client_closed

\* identifiers waiting in a queue
Identifiers(q) == {i \in 1..Len(q) : q[i] # Sentinel}

\* C10: after the shutdown event is set no worker of any source dequeues a further
\* identifier and no new process_artwork is started: not by workers that waited on
\* the queue, nor by workers between two items, nor by workers created after the
\* signal because get_artwork_ids was still running when it arrived.
C10_NoWorkAfterShutdown ==
    [][shutdown_event =>
          /\ \A m \in Museums :
                Cardinality(Identifiers(work_queues'[m]))
                    = Cardinality(Identifiers(work_queues[m]))
          /\ \A w \in Workers :
                /\ task[w].pc = "none" => task'[w].pc = "none"
                /\ task[w].pc = "created" => task'[w].pc \in {"created", "cancelled"}]_vars

\* the event is set, every worker is over, and an identifier is still in the queue
C10_Witness ==
    \E m \in crawlers :
        /\ shutdown_event
        /\ WorkersTerminated(m)
        /\ Identifiers(work_queues[m]) # {}

\* how a crawl_museum whose workers are over ends: it returns, unless its source
\* listed no identifier and _log_museum_stats divides by zero
Ended(m) == IF stats[m].total_artworks > 0 THEN "returned" ELSE "raised"

C12_ClientClosedLast ==
    client_closed =>
        /\ \A w \in Workers : cancel_req[w] => wpc[w] = "done"
        /\ \A w \in Workers : task[w].pc \notin InFlight

\* get_artwork_ids of m raised: crawl_museum ended before it created a worker
DiscoveryFailed(m) ==
    /\ cpc[m] = "raised"
    /\ \A w \in WorkersOf(m) : wpc[w] = "none"

\* C13: when get_artwork_ids of one source raises, that source starts no worker and
\* processes nothing, and every other source goes on undisturbed: its crawl_museum
\* is not cancelled, neither are its workers, and its session stays open until its
\* crawl_museum is over.
C13_DiscoveryFailureIsLocal ==
    \A m \in crawlers :
        DiscoveryFailed(m) =>
            /\ stats[m].total_processed = 0
            /\ \A k \in crawlers \ {m} :
                  /\ cpc[k] # "cancelled"
                  /\ ~ccancel[k]
                  /\ cpc[k] \in {"discover", "gather"} => session[k]
                  /\ \A w \in WorkersOf(k) : ~cancel_req[w]

\* the sources whose crawl_museum is running
ActiveSources == {k \in crawlers : cpc[k] \in {"discover", "gather"}}

\* the workers crawl_museum has created for m
Launched(m) == {w \in Workers : Museum(w) = m /\ wpc[w] # "none"}

\* crawl_museum of m takes its first step
Starts(m) == cpc[m] = "init" /\ cpc'[m] # "init"

\* crawl_museum of m creates its workers
Launches(m) == cpc[m] = "discover" /\ cpc'[m] = "gather"

\* C14 (as amended): the number of workers a source launches equals
\* min(max(1, floor(limit / a)), limit), where a is the number of sources active
\* (itself included) at the moment the source starts; it is at least 1 whenever the
\* limit is at least 1 and 0 when the limit is 0, and it is never changed
\* afterwards when sibling sources start or finish.
C14_WorkerCount ==
    /\ [][\A m \in crawlers :
            /\ Starts(m) =>
                  num_workers'[m] =
                      Min(Max(1, max_concurrent_requests \div Cardinality(ActiveSources')),
                          max_concurrent_requests)
            /\ Launches(m) => Cardinality(Launched(m)') = num_workers[m]
            /\ cpc[m] # "init" =>
                  /\ num_workers'[m] = num_workers[m]
                  /\ Launched(m) # {} => Launched(m)' = Launched(m)]_vars
    /\ [](\A m \in crawlers :
            (cpc[m] # "init" /\ max_concurrent_requests >= 1) => num_workers[m] >= 1)

\* C14 as stated: the number of workers a source launches is
\* max(1, floor(limit / a)), hence at least 1.
C14_AtLeastOneWorker ==
    [][\A m \in crawlers :
          Launches(m) =>
              /\ Cardinality(Launched(m)') >= 1
              /\ \E a \in 1..Cardinality(crawlers) :
                    Cardinality(Launched(m)') = Max(1, max_concurrent_requests \div a)]_vars

\* under a limit of 2 the first source (alone when it started) has launched two
\* workers and the second (one of two) one, and the first is over
C14_Witness ==
    /\ max_concurrent_requests = 2
    /\ Cardinality(Launched(1)) = 2
    /\ Cardinality(Launched(2)) = 1
    /\ cpc[1] = "returned"
    /\ cpc[2] = "gather"

\* the sentinels waiting in a queue
SentinelsIn(q) == {i \in 1..Len(q) : q[i] = Sentinel}

\* w takes the head of its queue
Dequeues(w) ==
    /\ wpc[w] = "get"
    /\ wpc'[w] # "get"
    /\ work_queues[Museum(w)] # <<>>
    /\ work_queues'[Museum(w)] = Tail(work_queues[Museum(w)])

\* C15: crawl_museum enqueues exactly num_workers sentinels, all behind every
\* identifier; a worker dequeues nothing after a sentinel; and in a run that is not
\* cancelled every worker dequeues exactly one sentinel (each sentinel in the queue
\* belongs to one worker still running, none is left when all are done), no
\* sentinel being taken while an identifier is queued.
C15_OneSentinelPerWorker ==
    /\ [][\A m \in crawlers :
            Launches(m) =>
                /\ Cardinality(SentinelsIn(work_queues'[m])) = num_workers[m]
                /\ Cardinality(Identifiers(work_queues'[m]))
                       = Capped(stats'[m].total_artworks,
                                IF Truthy(max_artworks_per_museum)
                                THEN max_artworks_per_museum ELSE NoCap)]_vars
    /\ [](\A m \in crawlers :
            /\ \A i \in SentinelsIn(work_queues[m]), j \in Identifiers(work_queues[m]) : j < i
            /\ Launched(m) # {} =>
                  Cardinality(SentinelsIn(work_queues[m]))
                      = Cardinality({w \in WorkersOf(m) : wpc[w] # "done"})
            /\ WorkersTerminated(m) => work_queues[m] = <<>>)
    /\ [][\A w \in Workers :
            /\ wpc[w] = "done" => wpc'[w] = "done"
            /\ (Dequeues(w) /\ Head(work_queues[Museum(w)]) = Sentinel) =>
                  /\ wpc'[w] = "done"
                  /\ Identifiers(work_queues[Museum(w)]) = {}
            /\ work_queues'[Museum(w)] # work_queues[Museum(w)] =>
                  \/ Launches(Museum(w))
                  \/ Starts(Museum(w))
                  \/ \E v \in WorkersOf(Museum(w)) : Dequeues(v)]_vars

\* two workers have shared two identifiers and taken a sentinel each
C15_Witness ==
    \E m \in crawlers :
        /\ Completed(m)
        /\ num_workers[m] = 2
        /\ stats[m].total_processed = 2
        /\ work_queues[m] = <<>>

\* the identifiers waiting in a queue, and those handed to workers
QueuedIds(m) == {work_queues[m][i] : i \in Identifiers(work_queues[m])}
HandedSet(m) == {handed[m][i] : i \in DOMAIN handed[m]}

SemHeldBy == {p \in Callers : pa[p].pos \in {"acquire", "fetch", "backoff"}}
LockHeldBy(m) == {p \in Callers : cl[p] = [pc |-> "sleep", src |-> m]}
BlockedOnSem == {p \in Callers : pa[p].pos = "sem_wait" /\ ~SemFree}
BlockedOnLock == {p \in Callers : cl[p].pc = "lock_wait" /\ locks[cl[p].src]}

\* C17: the semaphore is always acquired before a rate-limiter lock and never the
\* other way round (who is inside acquire holds a unit, who waits for a unit holds
\* no lock and waits for none), and no state has tasks waiting on the two in a
\* cycle: the lock a task waits for is held by a task that only sleeps, the units
\* a task waits for are held by tasks of which one at least is not blocked, so
\* some task can always proceed.
C17_NoDeadlock ==
    /\ \A p \in Callers :
          /\ cl[p].pc # "idle" => p \in SemHeldBy
          /\ pa[p].pos \in {"out", "sem_wait"} => cl[p].pc = "idle"
    /\ \A m \in Museums :
          /\ locks[m] <=> LockHeldBy(m) # {}
          /\ Cardinality(LockHeldBy(m)) <= 1
    /\ request_semaphore + Cardinality(SemHeldBy) = max_concurrent_requests
    /\ \A p \in BlockedOnLock : LockHeldBy(cl[p].src) \cap (BlockedOnSem \cup BlockedOnLock) = {}
    /\ BlockedOnSem # {} => SemHeldBy \ BlockedOnLock # {}
    /\ (BlockedOnSem \cup BlockedOnLock) # Callers

\* every unit is held, one holder sleeps with the lock of a source, another waits
\* for that lock, and a third task waits for a unit
C17_Witness ==
    /\ BlockedOnSem # {}
    /\ BlockedOnLock # {}

\* successful and failed of m are left as they are
OutcomesKept(m) ==
    /\ stats'[m].successful = stats[m].successful
    /\ stats'[m].failed = stats[m].failed

\* C18: a worker that is cancelled while it dequeues or while its item is being
\* processed increments neither successful nor failed when it resumes, and once
\* the shutdown event is set neither counter changes any more, so the identifiers
\* left in the queue are counted in neither.
C18_CancellationNotCounted ==
    [][/\ \A w \in Workers :
             (cancel_req[w] /\ wpc'[w] # wpc[w]) => OutcomesKept(Museum(w))
       /\ shutdown_event => \A m \in Museums : OutcomesKept(m)]_vars

\* the shutdown cancelled one worker at its item and the other before it took
\* anything: the item is in total_processed only, both sentinels are still queued
C18_Witness ==
    \E m \in crawlers :
        /\ shutdown_event
        /\ WorkersTerminated(m)
        /\ num_workers[m] = 2
        /\ stats[m] = [NoStats EXCEPT !.total_artworks = 1, !.total_processed = 1]
        /\ work_queues[m] = <<Sentinel, Sentinel>>

\* process_artwork tasks inside an attempt: from line 232 to the end of the try block
InAttempt == {p \in Callers : pa[p].pos \in {"acquire", "fetch"}}

\* C19: the unit of the semaphore and the lock of the limiter taken for an attempt
\* are released at its end: the units out are those of the tasks inside an
\* attempt, and a task in its backoff sleep holds neither a unit nor a lock.
C19_ReleasedBetweenAttempts ==
    /\ request_semaphore = max_concurrent_requests - Cardinality(InAttempt)
    /\ \A p \in Callers :
          pa[p].pos = "backoff" => \A m \in Museums : p \notin LockHeldBy(m)

\* tasks whose get_artwork_data call is under way
Fetching == {p \in Callers : pa[p].pos = "fetch"}

\* C20: every call of get_artwork_data is made by a task that holds a unit of the
\* semaphore, and in the step in which acquire returned for the source in that
\* same attempt; so for every source the calls of get_artwork_data never exceed
\* the completed acquisitions.
C20_FetchAfterAcquire ==
    /\ [](/\ \A m \in Museums : fetched[m] <= Len(acq[m])
          /\ Fetching \subseteq SemHeldBy
          /\ request_semaphore + Cardinality(Fetching) <= max_concurrent_requests)
    /\ [][\A m \in Museums :
            fetched'[m] # fetched[m] =>
                /\ fetched'[m] = fetched[m] + 1
                /\ Len(acq'[m]) = Len(acq[m]) + 1
                /\ \E p \in Callers :
                      /\ p \notin Fetching
                      /\ pa'[p] = [pos |-> "fetch", src |-> m]
                      /\ request_semaphore' < max_concurrent_requests
                      /\ \/ pa[p].pos \in {"acquire", "backoff"}
                            /\ request_semaphore' = request_semaphore
                         \/ pa[p].pos \in {"out", "sem_wait"}
                            /\ request_semaphore' = request_semaphore - 1]_vars

\* the fetch of a second attempt is under way for a source, after a second
\* acquisition that had to sleep out the interval
C20_Witness ==
    \E p \in Callers, m \in Museums :
        /\ pa[p] = [pos |-> "fetch", src |-> m]
        /\ fetched[m] = 2
        /\ Len(acq[m]) = 2
        /\ acq[m][2] > acq[m][1]
        /\ \A q \in Callers \ {p} : pa[q].pos = "out"

\* C21: when process_artwork raises for an item (its retries used up), the worker
\* that awaited it goes on to dequeue, no other worker and no other task is
\* touched, crawl_museum stays in its gather; and a crawl_museum that had failed
\* items leaves the gather only when all its workers are over, and returns.
C21_ItemFailureIsLocal ==
    [][/\ \A w \in Workers :
             Resumes(w, "raised") =>
                 /\ wpc'[w] = "get"
                 /\ \A v \in Workers \ {w} : wpc'[v] = wpc[v] /\ task'[v] = task[v]
                 /\ UNCHANGED <<cpc, ccancel, work_queues, session, orch>>
       /\ \A m \in crawlers :
             (stats[m].failed > 0 /\ cpc'[m] # cpc[m]) =>
                 /\ \A w \in WorkersOf(m) : wpc[w] = "done"
                 /\ cpc'[m] = "returned"]_vars

\* the one worker of a source had its first item fail, went on to the second,
\* which succeeded, and crawl_museum returned
C21_Witness ==
    \E m \in crawlers :
        /\ Completed(m)
        /\ num_workers[m] = 1
        /\ handed[m] = <<1, 2>>
        /\ stats[m].failed = 1
        /\ stats[m].successful = 1

\* the shutdown cancelled a worker of m
WorkerCancelled(m) == shutdown_event /\ \E w \in WorkersOf(m) : cancel_req[w]

\* C22: a worker cancelled while it dequeues or while its item is processed ends
\* without raising, so the gather of its crawl_museum completes once the workers
\* are over, and crawl_museum then reports, closes its session and returns
\* normally.
C22_CancelledWorkersReturnNormally ==
    [][\A m \in crawlers :
          (WorkerCancelled(m) /\ cpc[m] = "gather" /\ cpc'[m] # "gather") =>
              /\ \A w \in WorkersOf(m) : wpc[w] = "done"
              /\ cpc'[m] = "returned"
              /\ ~session'[m]]_vars

\* crawl_museum of m is between init_session and its finally block
Open(m) == cpc[m] \in {"discover", "gather"}

\* C23: the session of a source is open from before its discovery for as long as
\* its crawl_museum has not ended, so that every get_artwork_ids and every
\* get_artwork_data runs with an open session, and it is closed once crawl_museum
\* has ended, whether it returned, raised or was cancelled.
C23_SessionScoped ==
    /\ \A m \in crawlers : Open(m) => session[m]
    /\ \A w \in Workers : task[w].pc = "fetch" => session[Museum(w)]
    /\ \A m \in crawlers : cpc[m] \in {"returned", "raised", "cancelled"} => ~session[m]

\* the run of m is over with nothing left: every identifier listed was processed,
\* every worker took its sentinel, the queue is empty, crawl_museum has ended
Drained(m) ==
    /\ cpc[m] \in {"returned", "raised"}
    /\ ~session[m]
    /\ \A w \in WorkersOf(m) : wpc[w] \in {"none", "done"}
    /\ work_queues[m] = <<>>
    /\ stats[m].total_processed = stats[m].total_artworks

\* C24: without a signal, with a limit of at least 1, every call of an adapter or
\* of the sink returning or raising in the end and the loop running whatever is
\* ready, the run ends: every identifier is processed, every worker takes a
\* sentinel and terminates, every queue ends empty, every crawl_museum ends and
\* the gather of run_crawlers is over.
C24_NormalRunTerminates ==
    <>(orch # "gather" /\ \A m \in crawlers : Drained(m))

\* the identifiers get_artwork_ids returned, in the order it returned them
Discovered(m) == [i \in 1..stats[m].total_artworks |-> i]

\* the identifiers still in a queue, in queue order
Waiting(m) == SelectSeq(work_queues[m], LAMBDA x : x # Sentinel)

\* the first cap identifiers of a list, the whole list without a cap
FirstCap(ids, cap) == IF cap = NoCap THEN ids ELSE SubSeq(ids, 1, Min(Len(ids), cap))

\* the identifiers of m went into its queue as the list ids, and have been
\* dequeued in that order so far
InOrder(m, ids) == handed[m] \o Waiting(m) = ids

\* C25: within one source the identifiers enqueued are the discovered list, cut to
\* its first cap identifiers when a cap is configured, in discovery order, and the
\* workers dequeue them in that same order: what has been handed out so far followed
\* by what still waits is that list, so an identifier's processing never starts
\* before that of one discovered earlier.
C25_DequeuedInDiscoveryOrder ==
    \A m \in crawlers :
        cpc[m] \in {"gather", "returned", "raised"} =>
            InOrder(m, FirstCap(Discovered(m), max_artworks_per_museum))

\* the limiter state of name m changes in this step: its lock, its _last_check
Touched(m) == locks'[m] # locks[m] \/ last_check'[m] # last_check[m]

\* a call of acquire(m) takes this step: a caller enters, moves inside or leaves
\* acquire(m), or acquire(m) returns
StepOf(m) ==
    \/ Len(acq'[m]) > Len(acq[m])
    \/ \E p \in Callers :
          /\ cl'[p] # cl[p]
          /\ (IF cl[p].pc = "idle" THEN cl'[p].src ELSE cl[p].src) = m

\* C26: the limiter's state is per name.  A step changes the lock and the last
\* instant of one name at most, the name of the acquire that takes the step; a lock
\* is taken exactly while a caller of that same name sleeps in it; a caller waits for
\* the lock of its name only when a caller of the same name holds it, and sleeps only
\* when the interval of its own name has not passed, and with the lock free and the
\* interval passed acquire returns in the step that calls it, whatever the other
\* names' locks and sleepers; and for a name never configured no caller is ever
\* inside acquire and the name's lock and instant never change.
C26_PerSourceLimiter ==
    /\ [](\A m \in Museums :
            /\ locks[m] <=> (\E q \in Callers : cl[q] = [pc |-> "sleep", src |-> m])
            /\ rates[m] = 0 =>
                  Inside(m) = {} /\ ~locks[m] /\ last_check[m] = 0 /\ acq[m] = <<>>)
    /\ [][/\ \A m \in Museums : Touched(m) => StepOf(m)
          /\ \A a, b \in Museums : StepOf(a) /\ StepOf(b) => a = b
          /\ \A p \in Callers :
                (cl[p].pc = "idle" /\ cl'[p].pc # "idle") =>
                    LET m == cl'[p].src
                    IN  /\ cl'[p].pc = "lock_wait" =>
                              \E q \in Callers \ {p} : cl[q] = [pc |-> "sleep", src |-> m]
                        /\ cl'[p].pc = "sleep" => ~Due(m) /\ ~locks[m]]_vars

\* one name's lock is held by a sleeper, with a second caller waiting for it, while
\* acquire on the other name has returned twice, the last time at this instant
C26_Witness ==
    \E a, b \in Museums, p, q \in Callers :
        /\ a # b
        /\ cl[p] = [pc |-> "sleep", src |-> a]
        /\ cl[q] = [pc |-> "lock_wait", src |-> a]
        /\ locks[a] /\ ~locks[b]
        /\ Len(acq[b]) = 2
        /\ acq[b][2] = now
        /\ last_check[b] = now
        /\ last_check[a] < now

\* get_artwork_ids of m returned an empty list and crawl_museum went on to its workers
EmptyListing(m) == stats[m].total_artworks = 0 /\ Launched(m) # {}

\* C27: a source whose discovery returns no identifier completes without error: no
\* identifier is handed to its workers and nothing is processed, its crawl_museum
\* does not raise (it waits for its workers or has returned, the session closed),
\* and no sibling source is cancelled because of it.
C27_EmptyListingCompletes ==
    \A m \in crawlers :
        (EmptyListing(m) /\ ~shutdown_event /\ ~ccancel[m]) =>
            /\ handed[m] = <<>>
            /\ stats[m].total_processed = 0
            /\ cpc[m] \in {"gather", "returned"}
            /\ cpc[m] = "returned" => ~session[m]
            /\ \A k \in crawlers \ {m} : ~ccancel[k] /\ cpc[k] # "cancelled"

\* C28: no unit of the semaphore leaks.  The free units and the tasks inside
\* "async with self.request_semaphore" always add up to the configured limit; a task
\* that ends from inside it, by returning True or False, by raising after its last
\* retry or by being cancelled in the limiter, the fetch, the save or the backoff,
\* gives its unit back in that step, and one cancelled while it waits for a unit
\* takes none; so with no process_artwork in flight, and so after a completed or a
\* cancelled run, every unit is free.
C28_NoUnitLeaked ==
    /\ [](/\ request_semaphore + Cardinality(SemHolders) = max_concurrent_requests
          /\ (\A w \in Workers : task[w].pc \notin InFlight) =>
                request_semaphore = max_concurrent_requests)
    /\ [][\A w \in Workers :
            /\ (task[w].pc \in InsideSem /\ task'[w].pc \in Finished) =>
                  request_semaphore' = request_semaphore + 1
            /\ (task[w].pc \in {"created", "sem_wait"} /\ task'[w].pc \in Finished) =>
                  /\ task'[w].pc = "cancelled"
                  /\ request_semaphore' = request_semaphore]_vars

\* a cancelled run is over: the shutdown cancelled the items of both sources, one
\* holding the only unit and the other not yet holding one, both crawl_museum
\* returned, and the unit is free again
C28_Witness ==
    /\ shutdown_event
    /\ orch # "gather"
    /\ \A m \in crawlers :
          /\ cpc[m] = "returned"
          /\ stats[m] = [NoStats EXCEPT !.total_artworks = 1, !.total_processed = 1]
    /\ max_concurrent_requests = 1
    /\ request_semaphore = 1
====
